---- MODULE Spec2Model ----
(***************************************************************************)
(* Model of the USD/JPY fetch / persist / load pipeline of src/data.py     *)
(* (CSV variant) and src/data_fetcher/fetch_fx_data.py (parquet variant).  *)
(*                                                                         *)
(* Text is modelled as a sequence of one-character strings, so that        *)
(* parsing (pd.to_datetime, pd.to_numeric, pd.read_csv) and formatting     *)
(* (DataFrame.to_csv) are real conversions.  A cell of a DataFrame is a    *)
(* record [t, n, s]:                                                       *)
(*   t = "ts"    Timestamp, n = year*10000 + month*100 + day               *)
(*   t = "int"   int64, n = the value                                      *)
(*   t = "float" float64, n = integer part, s = fractional decimal digits  *)
(*               without trailing zeros (the value the shortest repr of    *)
(*               the float denotes)                                        *)
(*   t = "str"   object (text), s = the characters                         *)
(***************************************************************************)
EXTENDS Integers, Sequences, FiniteSets, TLC

VARIABLES module, fs, pc, save_to_csv, data, df, result, cause,
          nRequests, nWrites, fs0, loaded, loadedFrom

vars == <<module, fs, pc, save_to_csv, data, df, result, cause,
          nRequests, nWrites, fs0, loaded, loadedFrom>>

(* Largest number of entries of the upstream time series. *)
MaxEntries == 3

-----------------------------------------------------------------------------
(* Characters and numerals *)

Digits == {"0", "1", "2", "3", "4", "5", "6", "7", "8", "9"}

DigitVal(c) ==
    CASE c = "0" -> 0 [] c = "1" -> 1 [] c = "2" -> 2 [] c = "3" -> 3
      [] c = "4" -> 4 [] c = "5" -> 5 [] c = "6" -> 6 [] c = "7" -> 7
      [] c = "8" -> 8 [] c = "9" -> 9

DigitChar(n) ==
    CASE n = 0 -> "0" [] n = 1 -> "1" [] n = 2 -> "2" [] n = 3 -> "3"
      [] n = 4 -> "4" [] n = 5 -> "5" [] n = 6 -> "6" [] n = 7 -> "7"
      [] n = 8 -> "8" [] n = 9 -> "9"

IsDigits(s) == Len(s) > 0 /\ \A i \in 1..Len(s) : s[i] \in Digits

RECURSIVE StrToNat(_)
StrToNat(s) ==
    IF s = <<>> THEN 0
    ELSE StrToNat(SubSeq(s, 1, Len(s) - 1)) * 10 + DigitVal(s[Len(s)])

RECURSIVE NatToStr(_)
NatToStr(n) ==
    IF n < 10 THEN <<DigitChar(n)>>
    ELSE NatToStr(n \div 10) \o <<DigitChar(n % 10)>>

RECURSIVE ZeroPad(_, _)
ZeroPad(s, w) == IF Len(s) >= w THEN s ELSE ZeroPad(<<"0">> \o s, w)

RECURSIVE StripZeros(_)
StripZeros(s) ==
    IF s # <<>> /\ s[Len(s)] = "0" THEN StripZeros(SubSeq(s, 1, Len(s) - 1))
    ELSE s

-----------------------------------------------------------------------------
(* Cells *)

TsCell(n) == [t |-> "ts", n |-> n, s |-> <<>>]
IntCell(n) == [t |-> "int", n |-> n, s |-> <<>>]
FloatCell(n, frac) == [t |-> "float", n |-> n, s |-> frac]
StrCell(s) == [t |-> "str", n |-> 0, s |-> s]

(* pd.to_datetime on one YYYY-MM-DD string *)
IsLeap(y) == (y % 4 = 0 /\ y % 100 # 0) \/ y % 400 = 0

DaysIn(y, m) ==
    IF m = 2 THEN (IF IsLeap(y) THEN 29 ELSE 28)
    ELSE IF m \in {4, 6, 9, 11} THEN 30 ELSE 31

IsDate(s) ==
    /\ Len(s) = 10
    /\ s[5] = "-" /\ s[8] = "-"
    /\ \A i \in {1, 2, 3, 4, 6, 7, 9, 10} : s[i] \in Digits
    /\ LET y == StrToNat(SubSeq(s, 1, 4))
           m == StrToNat(SubSeq(s, 6, 7))
           d == StrToNat(SubSeq(s, 9, 10))
       IN  m \in 1..12 /\ d >= 1 /\ d <= DaysIn(y, m)

ParseDate(s) ==
    TsCell(StrToNat(SubSeq(s, 1, 4)) * 10000 + StrToNat(SubSeq(s, 6, 7)) * 100
       + StrToNat(SubSeq(s, 9, 10)))

(* pd.to_numeric on one string *)
DotPositions(s) == {i \in 1..Len(s) : s[i] = "."}

IsIntLit(s) == IsDigits(s)

IsFloatLit(s) ==
    /\ Cardinality(DotPositions(s)) = 1
    /\ LET p == CHOOSE i \in DotPositions(s) : TRUE
       IN  IsDigits(SubSeq(s, 1, p - 1)) /\ IsDigits(SubSeq(s, p + 1, Len(s)))

IsNumber(s) == IsIntLit(s) \/ IsFloatLit(s)

ParseNumber(s) ==
    IF IsIntLit(s) THEN IntCell(StrToNat(s))
    ELSE LET p == CHOOSE i \in DotPositions(s) : TRUE
         IN  FloatCell(StrToNat(SubSeq(s, 1, p - 1)),
                   StripZeros(SubSeq(s, p + 1, Len(s))))

AsFloat(v) == IF v.t = "int" THEN FloatCell(v.n, <<>>) ELSE v

NaN == [t |-> "nan", n |-> 0, s |-> <<>>]

-----------------------------------------------------------------------------
(* DataFrames: [columns |-> names, rows |-> sequence of rows of cells] *)

NoTable == [columns |-> <<>>, rows |-> <<>>]

HasColumn(tbl, name) == \E i \in 1..Len(tbl.columns) : tbl.columns[i] = name

ColIndex(tbl, name) == CHOOSE i \in 1..Len(tbl.columns) : tbl.columns[i] = name

Column(tbl, name) == [r \in 1..Len(tbl.rows) |-> tbl.rows[r][ColIndex(tbl, name)]]

(* df[name] = cells, for an existing or a new column *)
SetColumn(tbl, name, cells) ==
    IF HasColumn(tbl, name)
    THEN [tbl EXCEPT !.rows =
            [r \in 1..Len(tbl.rows) |->
                [tbl.rows[r] EXCEPT ![ColIndex(tbl, name)] = cells[r]]]]
    ELSE [columns |-> Append(tbl.columns, name),
          rows |-> [r \in 1..Len(tbl.rows) |-> Append(tbl.rows[r], cells[r])]]

(* Keys of the records of the time series, in order of first appearance *)
RECURSIVE AddKeys(_, _)
AddKeys(keys, rec) ==
    IF rec = <<>> THEN keys
    ELSE AddKeys(IF \E i \in 1..Len(keys) : keys[i] = rec[1].k
                 THEN keys ELSE Append(keys, rec[1].k),
                 Tail(rec))

RECURSIVE UnionKeys(_, _)
UnionKeys(keys, raw) ==
    IF raw = <<>> THEN keys
    ELSE UnionKeys(AddKeys(keys, raw[1].rec), Tail(raw))

FieldOf(rec, key) ==
    IF \E i \in 1..Len(rec) : rec[i].k = key
    THEN StrCell(rec[CHOOSE i \in 1..Len(rec) : rec[i].k = key].v)
    ELSE NaN

(* pd.DataFrame.from_dict(fx_data, orient='index') followed by reset_index:
   one row per date key, the key in a first column named "index" *)
FromDictResetIndex(raw) ==
    LET keys == UnionKeys(<<>>, raw)
    IN  [columns |-> <<"index">> \o keys,
         rows |-> [r \in 1..Len(raw) |->
                     <<StrCell(raw[r].date)>> \o
                     [c \in 1..Len(keys) |-> FieldOf(raw[r].rec, keys[c])]]]

StandardColumns == <<"Date", "Open", "High", "Low", "Close">>

PersistedColumns == <<"Date", "Open", "High", "Low", "Close", "Volume">>

(* A Volume column filled with a placeholder other than zero *)
AddVolume_Ones(tbl) ==
    SetColumn(tbl, "Volume", [r \in 1..Len(tbl.rows) |-> IntCell(1)])

(* df['Volume'] = 0 *)
VolumeCell == IntCell(0)

AddVolume(tbl) ==
    SetColumn(tbl, "Volume", [r \in 1..Len(tbl.rows) |-> VolumeCell])

(* pd.to_datetime(column) *)
CanToDatetime(cells) ==
    \A r \in 1..Len(cells) : cells[r].t = "ts" \/ (cells[r].t = "str" /\ IsDate(cells[r].s))

ToDatetime(cells) ==
    [r \in 1..Len(cells) |-> IF cells[r].t = "ts" THEN cells[r] ELSE ParseDate(cells[r].s)]

(* pd.to_numeric(column): int64 when every value is an integer literal,
   float64 otherwise *)
CanToNumeric(cells) ==
    \A r \in 1..Len(cells) : cells[r].t = "nan" \/ (cells[r].t = "str" /\ IsNumber(cells[r].s))

ToNumeric(cells) ==
    LET parsed == [r \in 1..Len(cells) |->
                     IF cells[r].t = "nan" THEN NaN ELSE ParseNumber(cells[r].s)]
        allInt == \A r \in 1..Len(cells) : parsed[r].t = "int"
    IN  IF allInt THEN parsed
        ELSE [r \in 1..Len(cells) |-> IF parsed[r].t = "nan" THEN NaN ELSE AsFloat(parsed[r])]

(* df.sort_values(name).reset_index(drop=True) *)
RECURSIVE InsertRow(_, _, _)
InsertRow(sorted, row, c) ==
    IF sorted = <<>> THEN <<row>>
    ELSE IF row[c].n < sorted[1][c].n THEN <<row>> \o sorted
    ELSE <<sorted[1]>> \o InsertRow(Tail(sorted), row, c)

RECURSIVE SortRows(_, _)
SortRows(rows, c) ==
    IF rows = <<>> THEN <<>>
    ELSE InsertRow(SortRows(SubSeq(rows, 1, Len(rows) - 1), c), rows[Len(rows)], c)

SortValues(tbl, name) == [tbl EXCEPT !.rows = SortRows(tbl.rows, ColIndex(tbl, name))]

PriceColumns == <<"Open", "High", "Low", "Close">>

(* Lines 47-68 of data.py, 47-64 of fetch_fx_data.py: the outcome of the
   reshape, the type conversions and the sort.  ok = FALSE with the raised
   error, or ok = TRUE with the DataFrame. *)
Normalize(raw) ==
    LET t0 == FromDictResetIndex(raw)
    IN  IF Len(t0.columns) # Len(StandardColumns)
        THEN [ok |-> FALSE, why |-> "LengthMismatch", df |-> NoTable]
        ELSE
        LET t1 == AddVolume([t0 EXCEPT !.columns = StandardColumns])
        IN  IF ~CanToDatetime(Column(t1, "Date"))
            THEN [ok |-> FALSE, why |-> "MalformedDateError", df |-> NoTable]
            ELSE IF \E i \in 1..Len(PriceColumns) : ~CanToNumeric(Column(t1, PriceColumns[i]))
            THEN [ok |-> FALSE, why |-> "MalformedNumberError", df |-> NoTable]
            ELSE
            LET t2 == SetColumn(t1, "Date", ToDatetime(Column(t1, "Date")))
                t3 == SetColumn(t2, "Open", ToNumeric(Column(t2, "Open")))
                t4 == SetColumn(t3, "High", ToNumeric(Column(t3, "High")))
                t5 == SetColumn(t4, "Low", ToNumeric(Column(t4, "Low")))
                t6 == SetColumn(t5, "Close", ToNumeric(Column(t5, "Close")))
            IN  [ok |-> TRUE, why |-> "", df |-> SortValues(t6, "Date")]

-----------------------------------------------------------------------------
(* Files: [kind, header, lines].  A CSV file holds text, a parquet file
   holds the typed cells of the table it was written from. *)

NoFile == [kind |-> "absent", header |-> <<>>, lines |-> <<>>]

(* A to_csv that writes numbers without their fractional digits *)
FormatNumber_DropsFraction(v) == NatToStr(v.n)

(* The text DataFrame.to_csv writes for one cell *)
FormatNumber(v) ==
    IF v.t = "int" THEN NatToStr(v.n)
    ELSE NatToStr(v.n) \o <<".">> \o (IF v.s = <<>> THEN <<"0">> ELSE v.s)

FormatDate(v) ==
    ZeroPad(NatToStr(v.n \div 10000), 4) \o <<"-">>
    \o ZeroPad(NatToStr((v.n \div 100) % 100), 2) \o <<"-">>
    \o ZeroPad(NatToStr(v.n % 100), 2)

FormatCell(v) ==
    CASE v.t = "ts" -> FormatDate(v)
      [] v.t \in {"int", "float"} -> FormatNumber(v)
      [] v.t = "str" -> v.s
      [] v.t = "nan" -> <<>>

(* df.to_csv(filename, index=False) *)
ToCsv(tbl) ==
    [kind |-> "csv",
     header |-> tbl.columns,
     lines |-> [r \in 1..Len(tbl.rows) |->
                  [c \in 1..Len(tbl.columns) |-> FormatCell(tbl.rows[r][c])]]]

(* df.to_parquet(parquet_file, index=False, compression='snappy') *)
ToParquet(tbl) == [kind |-> "parquet", header |-> tbl.columns, lines |-> tbl.rows]

(* pd.read_csv: a column is int64 when every field is an integer literal,
   float64 when every field is a number, object otherwise *)
InferCell(text, allInt, allNum) ==
    IF text = <<>> THEN NaN
    ELSE IF allInt THEN ParseNumber(text)
    ELSE IF allNum THEN AsFloat(ParseNumber(text))
    ELSE StrCell(text)

ReadCsv(file) ==
    LET nr == Len(file.lines)
        allInt(c) == \A r \in 1..nr : IsIntLit(file.lines[r][c])
        allNum(c) == \A r \in 1..nr : file.lines[r][c] = <<>> \/ IsNumber(file.lines[r][c])
    IN  [columns |-> file.header,
         rows |-> [r \in 1..nr |->
                     [c \in 1..Len(file.header) |->
                        InferCell(file.lines[r][c], allInt(c), allNum(c))]]]

(* pd.read_parquet *)
ReadParquet(file) == [columns |-> file.header, rows |-> file.lines]

(* The values a call returns: nothing yet, None, a DataFrame, or an
   exception that leaves the function *)
Pending == [kind |-> "pending", df |-> NoTable]
None == [kind |-> "None", df |-> NoTable]
Raised == [kind |-> "raised", df |-> NoTable]
Frame(tbl) == [kind |-> "df", df |-> tbl]

(* load_usdjpy_data of data.py *)
LoadCsv(file) ==
    IF file = NoFile THEN [ret |-> None, why |-> "NotFoundError"]
    ELSE LET tbl == ReadCsv(file)
         IN  IF ~HasColumn(tbl, "Date") THEN [ret |-> Raised, why |-> "KeyError"]
             ELSE IF ~CanToDatetime(Column(tbl, "Date"))
             THEN [ret |-> Raised, why |-> "ValueError"]
             ELSE [ret |-> Frame(SetColumn(tbl, "Date", ToDatetime(Column(tbl, "Date")))),
                   why |-> ""]

(* load_usdjpy_data of fetch_fx_data.py *)
LoadParquet(file) ==
    IF file = NoFile THEN [ret |-> None, why |-> "NotFoundError"]
    ELSE [ret |-> Frame(ReadParquet(file)), why |-> ""]

(* A load that does not catch FileNotFoundError *)
load_usdjpy_data_Uncaught(m, file) ==
    IF file = NoFile THEN [ret |-> Raised, why |-> "FileNotFoundError"]
    ELSE IF m = "data" THEN LoadCsv(file) ELSE LoadParquet(file)

load_usdjpy_data(m, file) == IF m = "data" THEN LoadCsv(file) ELSE LoadParquet(file)

(* The file fetch_usdjpy_data writes *)
ToFile(m, tbl) == IF m = "data" THEN ToCsv(tbl) ELSE ToParquet(tbl)

DefaultPath(m) ==
    IF m = "data" THEN "data/USDJPY_daily_alphavantage.csv" ELSE "data/USDJPY_daily.parquet"

-----------------------------------------------------------------------------
(* Inputs *)

Entry(d, r) == [date |-> d, rec |-> r]

Record(o, h, l, c) ==
    << [k |-> "1. open", v |-> o], [k |-> "2. high", v |-> h],
       [k |-> "3. low", v |-> l], [k |-> "4. close", v |-> c] >>

InputEntries ==
    { Entry(<<"2","0","2","4","-","0","1","-","0","5">>,
            Record(<<"1","4","8",".","3","0">>, <<"1","4","8",".","9","0">>,
                   <<"1","4","8",".","1","0">>, <<"1","4","8",".","7","5">>)),
      Entry(<<"2","0","2","4","-","0","1","-","0","8">>,
            Record(<<"1","4","9">>, <<"1","5","0",".","0","5">>,
                   <<"1","4","9">>, <<"1","5","0",".","0">>)),
      Entry(<<"2","0","2","3","-","1","2","-","2","9">>,
            Record(<<"1","4","1">>, <<"1","4","1",".","9","0","0","0">>,
                   <<"0","1","4","0">>, <<"1","4","1",".","0","0">>)),
      Entry(<<"2","0","2","4","-","0","2","-","2","9">>,
            Record(<<"1","5","0",".","0","0","7">>, <<"1","5","0",".","7","0">>,
                   <<"1","4","9",".","2","1">>, <<"1","5","0">>)),
      Entry(<<"2","0","2","4","-","1","3","-","0","1">>,
            Record(<<"1","4","8",".","3","0">>, <<"1","4","8",".","9","0">>,
                   <<"1","4","8",".","1","0">>, <<"1","4","8",".","7","5">>)),
      Entry(<<"2","0","2","4","-","0","1","-","0","9">>,
            Record(<<"1","4","4",".","5","0">>, <<"n","/","a">>,
                   <<"1","4","4",".","1","0">>, <<"1","4","4",".","2","0">>)) }

(* The time series of a response: date keys are distinct, in any order *)
RawQuotes ==
    UNION { { q \in [1..n -> InputEntries] :
                \A i, j \in 1..n : i # j => q[i].date # q[j].date } : n \in 0..MaxEntries }

NoResponse == [hasError |-> FALSE, hasNote |-> FALSE, hasSeries |-> FALSE, series |-> <<>>]

(* The JSON objects the upstream may answer with: any combination of the
   "Error Message", "Note" and "Time Series FX (Daily)" fields *)
Responses ==
    { [hasError |-> e, hasNote |-> n, hasSeries |-> FALSE, series |-> <<>>] :
        e \in BOOLEAN, n \in BOOLEAN }
    \cup
    { [hasError |-> e, hasNote |-> n, hasSeries |-> TRUE, series |-> q] :
        e \in BOOLEAN, n \in BOOLEAN, q \in RawQuotes }

Modules == {"data", "fetch_fx_data"}

Paths == {DefaultPath("data"), DefaultPath("fetch_fx_data"),
          "data/missing", "data/no_volume", "data/no_date", "data/bad_date"}

(* Tables of files found on disk before the program runs *)
OldTable ==
    [columns |-> PersistedColumns,
     rows |-> << <<TsCell(20231228), FloatCell(141, <<"2">>), FloatCell(141, <<"8">>),
                   FloatCell(140, <<"9">>), FloatCell(141, <<"5">>), IntCell(0)>> >>]

NoVolumeTable ==
    [columns |-> StandardColumns,
     rows |-> << <<TsCell(20231228), FloatCell(141, <<"2">>), FloatCell(141, <<"8">>),
                   FloatCell(140, <<"9">>), FloatCell(141, <<"5">>)>> >>]

NoDateTable ==
    [columns |-> <<"Open", "High", "Low", "Close", "Volume">>,
     rows |-> << <<FloatCell(141, <<"2">>), FloatCell(141, <<"8">>),
                   FloatCell(140, <<"9">>), FloatCell(141, <<"5">>), IntCell(0)>> >>]

BadDateTable ==
    [columns |-> PersistedColumns,
     rows |-> << <<StrCell(<<"y","e","s","t","e","r","d","a","y">>),
                   FloatCell(141, <<"2">>), FloatCell(141, <<"8">>),
                   FloatCell(140, <<"9">>), FloatCell(141, <<"5">>), IntCell(0)>> >>]

-----------------------------------------------------------------------------
(* fetch_usdjpy_data *)

(* The checks with the time-series test first *)
ResponseOutcome_SeriesFirst(d) ==
    IF d.hasSeries THEN "ok"
    ELSE IF d.hasError THEN "UpstreamError"
    ELSE IF d.hasNote THEN "RateLimitedError"
    ELSE "UnexpectedResponseError"

(* The checks with the time-series field looked up under a wrong key *)
ResponseOutcome_WrongKey(d) ==
    IF d.hasError THEN "UpstreamError"
    ELSE IF d.hasNote THEN "RateLimitedError"
    ELSE "UnexpectedResponseError"

(* The three checks of the response, in the order of the code *)
ResponseOutcome(d) ==
    IF d.hasError THEN "UpstreamError"
    ELSE IF d.hasNote THEN "RateLimitedError"
    ELSE IF ~d.hasSeries THEN "UnexpectedResponseError"
    ELSE "ok"

Init ==
    /\ module \in Modules
    /\ \E old \in {NoFile, ToFile(module, OldTable)} :
         fs = [p \in Paths |->
                 CASE p = DefaultPath(module) -> old
                   [] p = "data/no_volume" -> ToFile(module, NoVolumeTable)
                   [] p = "data/no_date" -> ToFile(module, NoDateTable)
                   [] p = "data/bad_date" -> ToFile(module, BadDateTable)
                   [] OTHER -> NoFile]
    /\ pc = "idle"
    /\ save_to_csv = TRUE
    /\ data = NoResponse
    /\ df = NoTable
    /\ result = Pending
    /\ cause = ""
    /\ nRequests = 0
    /\ nWrites = 0
    /\ fs0 = fs
    /\ loaded = Pending
    /\ loadedFrom = ""

(* The caller invokes fetch_usdjpy_data; only data.py has the save_to_csv
   parameter, fetch_fx_data.py always saves *)
Call ==
    /\ pc = "idle"
    /\ \E s \in BOOLEAN :
         /\ (module = "fetch_fx_data" => s)
         /\ save_to_csv' = s
    /\ pc' = "request"
    /\ data' = NoResponse
    /\ df' = NoTable
    /\ result' = Pending
    /\ cause' = ""
    /\ nRequests' = 0
    /\ nWrites' = 0
    /\ fs0' = fs
    /\ loaded' = Pending
    /\ loadedFrom' = ""
    /\ UNCHANGED <<module, fs>>

(* requests.get(url) and response.json() give a JSON object *)
Request ==
    /\ pc = "request"
    /\ nRequests' = nRequests + 1
    /\ \E r \in Responses : data' = r
    /\ pc' = "check"
    /\ UNCHANGED <<module, fs, save_to_csv, df, result, cause, nWrites, fs0,
                   loaded, loadedFrom>>

(* A failed request that is issued a second time before giving up *)
RequestFails_Retries ==
    /\ pc = "request"
    /\ nRequests' = nRequests + 2
    /\ result' = None
    /\ cause' = "RequestException"
    /\ pc' = "return"
    /\ UNCHANGED <<module, fs, save_to_csv, data, df, nWrites, fs0, loaded, loadedFrom>>

(* requests.get or response.json() raises: the except clause returns None *)
RequestFails ==
    /\ pc = "request"
    /\ nRequests' = nRequests + 1
    /\ result' = None
    /\ cause' = "RequestException"
    /\ pc' = "return"
    /\ UNCHANGED <<module, fs, save_to_csv, data, df, nWrites, fs0, loaded, loadedFrom>>

CheckResponse ==
    /\ pc = "check"
    /\ IF ResponseOutcome(data) = "ok"
       THEN pc' = "normalize" /\ UNCHANGED <<result, cause>>
       ELSE pc' = "return" /\ result' = None /\ cause' = ResponseOutcome(data)
    /\ UNCHANGED <<module, fs, save_to_csv, data, df, nRequests, nWrites, fs0,
                   loaded, loadedFrom>>

(* A pipeline that saves the reshaped table before converting its types *)
NormalizeStep_SavesBeforeConverting ==
    /\ pc = "normalize"
    /\ LET r == Normalize(data.series)
       IN  IF r.ok
           THEN pc' = "persist" /\ df' = r.df /\ UNCHANGED <<result, cause, fs>>
           ELSE /\ pc' = "return" /\ result' = None /\ cause' = r.why /\ UNCHANGED df
                /\ fs' = [fs EXCEPT ![DefaultPath(module)] =
                            ToFile(module, FromDictResetIndex(data.series))]
    /\ UNCHANGED <<module, save_to_csv, data, nRequests, nWrites, fs0,
                   loaded, loadedFrom>>

(* The reshape, the conversions and the sort; an exception in any of them
   is caught by the except clause, which returns None *)
NormalizeStep ==
    /\ pc = "normalize"
    /\ LET r == Normalize(data.series)
       IN  IF r.ok
           THEN pc' = "persist" /\ df' = r.df /\ UNCHANGED <<result, cause>>
           ELSE pc' = "return" /\ result' = None /\ cause' = r.why /\ UNCHANGED df
    /\ UNCHANGED <<module, fs, save_to_csv, data, nRequests, nWrites, fs0,
                   loaded, loadedFrom>>

(* to_csv / to_parquet writes the file, then the function returns df *)
Persist ==
    /\ pc = "persist"
    /\ save_to_csv
    /\ nWrites' = nWrites + 1
    /\ fs' = [fs EXCEPT ![DefaultPath(module)] = ToFile(module, df)]
    /\ result' = Frame(df)
    /\ pc' = "return"
    /\ UNCHANGED <<module, save_to_csv, data, df, cause, nRequests, fs0,
                   loaded, loadedFrom>>

(* The destination cannot be opened for writing: the except clause returns None *)
PersistFails ==
    /\ pc = "persist"
    /\ save_to_csv
    /\ nWrites' = nWrites + 1
    /\ result' = None
    /\ cause' = "IOError"
    /\ pc' = "return"
    /\ UNCHANGED <<module, fs, save_to_csv, data, df, nRequests, fs0,
                   loaded, loadedFrom>>

(* data.py with save_to_csv=False: df is returned without a write *)
SkipPersist ==
    /\ pc = "persist"
    /\ ~save_to_csv
    /\ result' = Frame(df)
    /\ pc' = "return"
    /\ UNCHANGED <<module, fs, save_to_csv, data, df, cause, nRequests, nWrites,
                   fs0, loaded, loadedFrom>>

(* The function returns: its locals are gone, the caller holds result *)
Return ==
    /\ pc = "return"
    /\ pc' = "idle"
    /\ data' = NoResponse
    /\ df' = NoTable
    /\ UNCHANGED <<module, fs, save_to_csv, result, cause, nRequests, nWrites,
                   fs0, loaded, loadedFrom>>

(* The caller invokes load_usdjpy_data(filename) *)
Load ==
    /\ pc = "idle"
    /\ \E f \in Paths :
         /\ loaded' = load_usdjpy_data(module, fs[f]).ret
         /\ loadedFrom' = f
    /\ UNCHANGED <<module, fs, pc, save_to_csv, data, df, result, cause,
                   nRequests, nWrites, fs0>>

Next ==
    \/ Call
    \/ Request
    \/ RequestFails
    \/ CheckResponse
    \/ NormalizeStep
    \/ Persist
    \/ PersistFails
    \/ SkipPersist
    \/ Return
    \/ Load

Spec == Init /\ [][Next]_vars

-----------------------------------------------------------------------------
(* Vocabulary of the properties *)

DateKeys(q) == {q[i].date : i \in 1..Len(q)}

ValidEntry(e) ==
    /\ IsDate(e.date)
    /\ Len(e.rec) = 4
    /\ \A i \in 1..Len(e.rec) : IsNumber(e.rec[i].v)

ValidRawQuote(q) == \A i \in 1..Len(q) : ValidEntry(q[i])

NormalizeErrors == {"LengthMismatch", "MalformedDateError", "MalformedNumberError"}

ResponseErrors == {"UpstreamError", "RateLimitedError", "UnexpectedResponseError"}

(* The response passed the three checks and normalization has run *)
Normalized == pc \in {"persist", "return"} /\ ResponseOutcome(data) = "ok"

DatesOf(tbl) == Column(tbl, "Date")

StrictlyAscending(tbl) ==
    \A i, j \in 1..Len(tbl.rows) : i < j => DatesOf(tbl)[i].n < DatesOf(tbl)[j].n

IsZero(v) == v.t \in {"int", "float"} /\ v.n = 0 /\ v.s = <<>>

VolumesZero(tbl) ==
    /\ HasColumn(tbl, "Volume")
    /\ \A r \in 1..Len(tbl.rows) : IsZero(Column(tbl, "Volume")[r])

Conforms(file) == file.header = PersistedColumns

-----------------------------------------------------------------------------
(* C1: for every valid RawQuote, normalization produces a Series whose
   length is the number of distinct date keys and whose dates ascend with
   no date twice. *)
C1_NormalizeLengthAndOrder ==
    (Normalized /\ ValidRawQuote(data.series)) =>
        /\ cause \notin NormalizeErrors
        /\ Len(df.rows) = Cardinality(DateKeys(data.series))
        /\ df.columns = PersistedColumns
        /\ StrictlyAscending(df)

(* The same for the RawQuotes that have at least one entry. *)
NormalizeNonEmptyLengthAndOrder ==
    (Normalized /\ ValidRawQuote(data.series) /\ data.series # <<>>) =>
        /\ cause \notin NormalizeErrors
        /\ Len(df.rows) = Cardinality(DateKeys(data.series))
        /\ df.columns = PersistedColumns
        /\ StrictlyAscending(df)

NormalizeNonEmptyWitness ==
    /\ Normalized
    /\ Len(data.series) = 3
    /\ df.rows # <<>>
    /\ DatesOf(df)[1].n = 20231229
    /\ data.series[1].date # FormatDate(DatesOf(df)[1])

(* C2: an empty RawQuote gives an empty Series: fetch_usdjpy_data returns
   a table with zero rows, not None. *)
C2_EmptyQuoteGivesEmptySeries ==
    (Normalized /\ data.series = <<>>) =>
        /\ cause \notin NormalizeErrors
        /\ (pc = "return" /\ cause # "IOError" =>
                result.kind = "df" /\ result.df.rows = <<>>)

(* C3: a response with an "Error Message" field, whatever else it holds,
   fails with UpstreamError: no Series, normalization is not reached. *)
C3_ErrorMessageFails ==
    data.hasError =>
        /\ pc \in {"check", "return"}
        /\ pc = "return" => (result = None /\ cause = "UpstreamError" /\ df = NoTable)

C3_Witness ==
    /\ data.hasError
    /\ data.hasSeries
    /\ ValidRawQuote(data.series)
    /\ Len(data.series) = 2
    /\ pc = "return"
    /\ result = None

(* C4 as claimed: every response with the time-series field proceeds to
   normalization and does not end in UpstreamError, RateLimitedError or
   UnexpectedResponseError. *)
C4_SeriesAlwaysProceeds ==
    (data.hasSeries /\ pc \in {"normalize", "persist", "return"}) =>
        cause \notin ResponseErrors

(* C4 amended: every response with the time-series field and with neither
   an "Error Message" nor a "Note" field proceeds to normalization and
   does not end in one of the three response errors. *)
C4_SeriesWithoutErrorOrNoteProceeds ==
    (data.hasSeries /\ ~data.hasError /\ ~data.hasNote
        /\ pc \in {"normalize", "persist", "return"}) =>
        /\ cause \notin ResponseErrors
        /\ pc = "return" => (df # NoTable \/ cause \in NormalizeErrors)

C4_Witness ==
    /\ data.hasSeries /\ ~data.hasError /\ ~data.hasNote
    /\ Len(data.series) = 2
    /\ pc = "persist"
    /\ Len(df.rows) = 2

(* C5: loading the file fetch_usdjpy_data has just written gives the
   Series it returned: same rows, same order, same values. *)
C5_RoundTrip ==
    (pc = "idle" /\ result.kind = "df" /\ nWrites = 1
        /\ loadedFrom = DefaultPath(module)) =>
        loaded = result

C5_Witness ==
    /\ pc = "idle" /\ result.kind = "df" /\ nWrites = 1
    /\ module = "data"
    /\ loadedFrom = DefaultPath(module)
    /\ loaded.kind = "df"
    /\ Len(loaded.df.rows) = 3
    /\ \E r \in 1..3 : loaded.df.rows[r][2] = FloatCell(150, <<"0", "0", "7">>)
    /\ \E r \in 1..3 : loaded.df.rows[r][5] = FloatCell(141, <<>>)

(* C6: load_usdjpy_data on a path with no file returns None and creates
   or changes no file. *)
C6_LoadMissingReturnsNone ==
    [][(pc = "idle" /\ pc' = "idle" /\ loadedFrom' # "" /\ fs[loadedFrom'] = NoFile)
        => (loaded' = None /\ fs' = fs)]_vars

C6_Witness ==
    /\ loadedFrom = "data/missing"
    /\ fs[loadedFrom] = NoFile
    /\ loaded = None

(* C7: load_usdjpy_data on a file whose columns are not Date, Open, High,
   Low, Close, Volume returns no Series. *)
C7_MalformedFileRejected ==
    (loadedFrom # "" /\ fs[loadedFrom] # NoFile /\ ~Conforms(fs[loadedFrom])) =>
        loaded.kind # "df"

(* C8: every Candle of a returned Series, and of the file written for it,
   has volume zero. *)
C8_VolumeZero ==
    (pc \in {"return", "idle"} /\ result.kind = "df") =>
        /\ VolumesZero(result.df)
        /\ nWrites = 1 =>
             VolumesZero(load_usdjpy_data(module, fs[DefaultPath(module)]).ret.df)

C8_Witness ==
    /\ pc = "return" /\ result.kind = "df" /\ nWrites = 1
    /\ Len(result.df.rows) = 3
    /\ fs[DefaultPath(module)] = ToFile(module, result.df)

(* C9: an invocation that fails for an upstream error, a rate limit, an
   unexpected response or an unparseable date or price returns no Series
   and leaves the files as they were before it. *)
C9_ErrorsLeaveNoPartialResult ==
    (pc \in {"return", "idle"} /\ cause \in ResponseErrors \cup
        {"MalformedDateError", "MalformedNumberError"}) =>
        /\ result = None
        /\ fs = fs0

C9_Witness ==
    /\ pc = "return"
    /\ cause = "MalformedNumberError"
    /\ Len(data.series) = 3
    /\ ValidEntry(data.series[1])
    /\ fs0[DefaultPath(module)] # NoFile
    /\ fs = fs0
    /\ result = None

(* C10: an invocation issues exactly one request, performs at most one
   write, writes only after the request has completed and normalization
   has succeeded, and returns its Series only after the write. *)
C10_OneRequestThenOneWrite ==
    /\ nRequests <= 1
    /\ nWrites <= 1
    /\ (pc \in {"check", "normalize", "persist", "return"} \/ result # Pending)
          => nRequests = 1
    /\ (nWrites = 1 /\ pc = "return") =>
          /\ ResponseOutcome(data) = "ok"
          /\ Normalize(data.series).ok
          /\ df = Normalize(data.series).df
    /\ (pc \in {"return", "idle"} /\ result.kind = "df" /\ save_to_csv) =>
          /\ nWrites = 1
          /\ fs[DefaultPath(module)] = ToFile(module, result.df)

C10_Witness ==
    /\ pc = "return"
    /\ result.kind = "df"
    /\ save_to_csv
    /\ nRequests = 1
    /\ nWrites = 1
    /\ fs0[DefaultPath(module)] # fs[DefaultPath(module)]

====
